---- MODULE Spec2Model ----
(***************************************************************************)
(* Model of app.py, the Streamlit script of the Emotion-Based Music        *)
(* Visualizer.  One behaviour of Spec is a sequence of script runs         *)
(* (Streamlit re-executes the whole script on every interaction); the      *)
(* external collaborators (pygame mixer, cv2 camera, DeepFace, yt_dlp) are *)
(* stubs whose answers for the run are fixed in `stub`, the user's clicks  *)
(* and uploads are chosen when the widget is reached.  SpecPlayer drives   *)
(* play_music directly, since no top-level statement of the script calls   *)
(* it.                                                                     *)
(***************************************************************************)
EXTENDS Integers, Sequences, FiniteSets, TLC

VARIABLES
    pc,               \* position of the script (or of play_music)
    run,              \* number of the current script run / play_music call
    stub,             \* what each external collaborator answers in this run
    pygame_available, \* app.py:16,18  (FALSE until line 14 ran)
    cap,              \* the cv2.VideoCapture object: "absent", "closed", "open", "released"
    cap_available,    \* app.py:107,109,112 (FALSE until line 103 ran)
    clicked,          \* what the st.button of this run returned (FALSE if not rendered)
    path,             \* "none", "camera" or "upload": pipeline entered in this run
    uploaded_file,    \* "None", "valid" or "malformed"
    emotion,          \* app.py:118,147
    search_query,     \* app.py:44
    youtube_url,      \* app.py:123,152
    notices,          \* the st.* calls of the run, in order
    calls,            \* how often each external operation was invoked in the run
    tempFile,         \* content of <tmp>/audio.mp3: the url it was extracted from
    mixer,            \* pygame.mixer.music: [loaded, playing]
    pm_url,           \* argument of the running play_music call
    pm_result         \* what the last play_music call returned

vars == <<pc, run, stub, pygame_available, cap, cap_available, clicked, path,
          uploaded_file, emotion, search_query, youtube_url, notices, calls,
          tempFile, mixer, pm_url, pm_result>>

----------------------------------------------------------------------------
(* Bounds *)

MaxRuns == 2     \* script runs in one behaviour of Spec
MaxPlays == 2    \* play_music calls in one behaviour of SpecPlayer

----------------------------------------------------------------------------
(* Data *)

None == "None"

Emotions == {"angry", "disgust", "fear", "happy", "neutral", "sad", "surprise"}

\* A label DeepFace does not document; emotion_map.get has a default for it.
UnknownLabels == {"contempt"}

Labels == Emotions \cup UnknownLabels

emotion_map ==
    [e \in Emotions |->
        CASE e = "angry"    -> "calm"
          [] e = "disgust"  -> "relaxing"
          [] e = "fear"     -> "soothing"
          [] e = "happy"    -> "happy"
          [] e = "neutral"  -> "peaceful"
          [] e = "sad"      -> "uplifting"
          [] e = "surprise" -> "exciting"]

\* dict.get(key, default)
DictGet(d, key, default) == IF key \in DOMAIN d THEN d[key] ELSE default

\* emotion_map.get(emotion, 'neutral'), as written at lines 44, 125 and 154
mood_for(e) == DictGet(emotion_map, e, "neutral")

\* f"{emotion_map.get(emotion, 'neutral')} mood music"
SearchQuery(e) == mood_for(e) \o " mood music"

\* f"Now Playing: {emotion_map.get(emotion, 'neutral')} Mood Music"
NowPlaying(e) == "Now Playing: " \o mood_for(e) \o " Mood Music"

Urls == {"https://youtu.be/U1", "https://youtu.be/U2"}

ResultUrl == "https://youtu.be/U1"

AudioPath == "/tmp/audio.mp3"

Stubs ==
    [audio      : {"ok", "error"},
     camera     : {"raises", "closed", "opened"},
     read       : {"frame", "no_frame"},
     classifier : Labels \cup {"raises"},
     locator    : {"one", "empty", "missing", "raises"},
     fetcher    : {"asset", "fails"},
     device     : {"ok", "load_error", "play_error"}]

Note(kind, text) == [kind |-> kind, text |-> text]

CallNames == {"read", "analyze", "search", "play_music", "download", "load",
              "play", "video", "acquire", "release"}

NoCalls == [c \in CallNames |-> 0]

Bump(c, k) == [c EXCEPT ![k] = @ + 1]

MixerIdle == [loaded |-> None, playing |-> FALSE]

----------------------------------------------------------------------------
(* Module-level start: pygame.mixer.init() *)

MsgNoAudio == Note("warning", "Audio playback is not available in this environment.")

\* lines 14-19: the notices of the try/except around pygame.mixer.init()
PygameInitNotices(audio) == IF audio = "ok" THEN <<>> ELSE <<MsgNoAudio>>

PygameInit(next) ==
    /\ pc = "pygame_init"
    /\ pygame_available' = (stub.audio = "ok")
    /\ notices' = notices \o PygameInitNotices(stub.audio)
    /\ pc' = next
    /\ UNCHANGED <<run, stub, cap, cap_available, clicked, path, uploaded_file,
                   emotion, search_query, youtube_url, calls, tempFile, mixer,
                   pm_url, pm_result>>

----------------------------------------------------------------------------
(* Webcam capture: lines 103-112 *)

MsgNoCamera ==
    Note("warning", "Camera not available in this environment. Please try running locally.")

\* the object bound to `cap` after line 104 ("absent" when VideoCapture raised)
CapObject(camera) ==
    CASE camera = "raises" -> "absent"
      [] camera = "closed" -> "closed"
      [] camera = "opened" -> "open"

\* cap.isOpened()
IsOpened(c) == c = "open"

CameraOpen ==
    /\ pc = "camera_open"
    /\ cap' = CapObject(stub.camera)
    /\ cap_available' = IsOpened(cap')
    /\ calls' = IF IsOpened(cap') THEN Bump(calls, "acquire") ELSE calls
    /\ notices' = IF IsOpened(cap') THEN notices ELSE Append(notices, MsgNoCamera)
    /\ pc' = "dispatch"
    /\ UNCHANGED <<run, stub, pygame_available, clicked, path, uploaded_file,
                   emotion, search_query, youtube_url, tempFile, mixer, pm_url,
                   pm_result>>

----------------------------------------------------------------------------
(* The if / elif of lines 114 and 131-136 *)

MsgUpload == Note("write", "Upload an image instead:")

\* the same test without the availability guard
CapturePath_ButtonOnly(available, pressed) == pressed

\* line 114: cap_available and st.button("Capture & Analyze Emotion")
CapturePath(available, pressed) == available /\ pressed

Dispatch ==
    /\ pc = "dispatch"
    /\ \E pressed \in BOOLEAN, file \in {None, "valid", "malformed"} :
          IF CapturePath(cap_available, pressed)
          THEN /\ clicked' = pressed
               /\ path' = "camera"
               /\ pc' = "cap_read"
               /\ UNCHANGED <<uploaded_file, notices>>
          ELSE IF ~cap_available
          THEN /\ notices' = Append(notices, MsgUpload)
               /\ uploaded_file' = file
               /\ pc' = IF file # None THEN "upload_decode" ELSE "cleanup"
               /\ UNCHANGED <<clicked, path>>
          ELSE /\ clicked' = pressed
               /\ pc' = "cleanup"
               /\ UNCHANGED <<path, uploaded_file, notices>>
    /\ UNCHANGED <<run, stub, pygame_available, cap, cap_available, emotion,
                   search_query, youtube_url, calls, tempFile, mixer, pm_url,
                   pm_result>>

----------------------------------------------------------------------------
(* Camera path: lines 115-117 and 129-130 *)

MsgCaptureFailed == Note("error", "Failed to capture image.")

\* ret of cap.read(): a capture that is not open yields no frame
ReadRet(c, r) == c = "open" /\ r = "frame"

\* the pipeline entered whatever cap.read() reported
FrameGate_Always(ret) == TRUE

\* line 116: if ret
FrameGate(ret) == ret

CapRead ==
    /\ pc = "cap_read"
    /\ calls' = Bump(calls, "read")
    /\ IF FrameGate(ReadRet(cap, stub.read))
       THEN /\ pc' = "detect_emotion"
            /\ UNCHANGED notices
       ELSE /\ notices' = Append(notices, MsgCaptureFailed)
            /\ pc' = "cleanup"
    /\ UNCHANGED <<run, stub, pygame_available, cap, cap_available, clicked,
                   path, uploaded_file, emotion, search_query, youtube_url,
                   tempFile, mixer, pm_url, pm_result>>

----------------------------------------------------------------------------
(* Upload path: lines 136-144 *)

MsgUploaded == Note("image", "Uploaded Image")

\* Image.open(uploaded_file) raises on bytes that are no image; no try is around it
ImageOpenRaises(file) == file = "malformed"

UploadDecode ==
    /\ pc = "upload_decode"
    /\ IF ImageOpenRaises(uploaded_file)
       THEN /\ pc' = "crashed"
            /\ UNCHANGED <<clicked, path, notices>>
       ELSE \E pressed \in BOOLEAN :
              /\ clicked' = pressed
              /\ IF pressed
                 THEN /\ notices' = Append(notices, MsgUploaded)
                      /\ path' = "upload"
                      /\ pc' = "detect_emotion"
                 ELSE /\ pc' = "cleanup"
                      /\ UNCHANGED <<path, notices>>
    /\ UNCHANGED <<run, stub, pygame_available, cap, cap_available,
                   uploaded_file, emotion, search_query, youtube_url, calls,
                   tempFile, mixer, pm_url, pm_result>>

----------------------------------------------------------------------------
(* detect_emotion: lines 32-40, with the display calls that follow it *)

MsgDetectError == Note("error", "Error detecting emotion")

MsgSearching == Note("write", "Searching for a song...")

\* the except branch falling off the end instead of returning "neutral"
detect_emotion_ReturnsNone(analysis) == IF analysis = "raises" THEN None ELSE analysis

\* lines 34-40: the dominant emotion, or "neutral" when DeepFace.analyze raised
detect_emotion(analysis) == IF analysis = "raises" THEN "neutral" ELSE analysis

\* line 39: what the except branch shows
DetectNotices(analysis) == IF analysis = "raises" THEN <<MsgDetectError>> ELSE <<>>

\* line 120 (camera path) or line 148 (upload path)
MsgDetected(p, e) ==
    IF p = "camera" THEN Note("image", "Detected Emotion: " \o e)
                    ELSE Note("write", "Detected Emotion: " \o e)

DetectEmotion ==
    /\ pc = "detect_emotion"
    /\ calls' = Bump(calls, "analyze")
    /\ emotion' = detect_emotion(stub.classifier)
    /\ notices' = notices \o DetectNotices(stub.classifier)
                         \o <<MsgDetected(path, emotion'), MsgSearching>>
    /\ pc' = "search"
    /\ UNCHANGED <<run, stub, pygame_available, cap, cap_available, clicked,
                   path, uploaded_file, search_query, youtube_url, tempFile,
                   mixer, pm_url, pm_result>>

----------------------------------------------------------------------------
(* get_youtube_url: lines 42-59 *)

MsgSearchError == Note("error", "Error searching YouTube")

\* what ydl.extract_info returns for each answer of the search service
SearchInfo(locator) ==
    CASE locator = "one"     -> [entries |-> <<[webpage_url |-> ResultUrl]>>]
      [] locator = "empty"   -> [entries |-> <<>>]
      [] locator = "missing" -> [id |-> "x"]

\* lines 53-56
FirstEntryUrl(info) ==
    IF "entries" \in DOMAIN info /\ Len(info["entries"]) > 0
    THEN info["entries"][1]["webpage_url"]
    ELSE None

GetYoutubeUrl ==
    /\ pc = "search"
    /\ calls' = Bump(calls, "search")
    /\ search_query' = SearchQuery(emotion)
    /\ IF stub.locator = "raises"
       THEN /\ notices' = Append(notices, MsgSearchError)
            /\ youtube_url' = None
       ELSE /\ youtube_url' = FirstEntryUrl(SearchInfo(stub.locator))
            /\ UNCHANGED notices
    /\ pc' = "show_result"
    /\ UNCHANGED <<run, stub, pygame_available, cap, cap_available, clicked,
                   path, uploaded_file, emotion, tempFile, mixer, pm_url,
                   pm_result>>

----------------------------------------------------------------------------
(* Lines 124-128 and 153-157 *)

MsgNotFound == Note("warning", "No suitable music found.")

\* the test written against the empty string, which None passes
HasUrl_NotEmptyString(url) == url # ""

\* line 124 / 153: if youtube_url
HasUrl(url) == url # None

ShowResult ==
    /\ pc = "show_result"
    /\ IF HasUrl(youtube_url)
       THEN /\ notices' = notices \o <<Note("success", NowPlaying(emotion)),
                                        Note("video", youtube_url)>>
            /\ calls' = Bump(calls, "video")
       ELSE /\ notices' = Append(notices, MsgNotFound)
            /\ UNCHANGED calls
    /\ pc' = "cleanup"
    /\ UNCHANGED <<run, stub, pygame_available, cap, cap_available, clicked,
                   path, uploaded_file, emotion, search_query, youtube_url,
                   tempFile, mixer, pm_url, pm_result>>

----------------------------------------------------------------------------
(* Clean up: lines 159-161 *)

\* the test without cap_available
ShouldRelease_AnyCap(c, available) == c # "absent"

\* line 160: 'cap' in locals() and cap_available
ShouldRelease(c, available) == c # "absent" /\ available

Cleanup ==
    /\ pc = "cleanup"
    /\ IF ShouldRelease(cap, cap_available)
       THEN /\ cap' = "released"
            /\ calls' = Bump(calls, "release")
       ELSE UNCHANGED <<cap, calls>>
    /\ pc' = "done"
    /\ UNCHANGED <<run, stub, pygame_available, cap_available, clicked, path,
                   uploaded_file, emotion, search_query, youtube_url, notices,
                   tempFile, mixer, pm_url, pm_result>>

----------------------------------------------------------------------------
(* The script as Streamlit runs it *)

RunEnded == pc \in {"done", "crashed"}

\* the script's names before its first statement ran
Init ==
    /\ pc = "pygame_init"
    /\ run = 1
    /\ stub \in Stubs
    /\ pygame_available = FALSE
    /\ cap = "absent"
    /\ cap_available = FALSE
    /\ clicked = FALSE
    /\ path = "none"
    /\ uploaded_file = None
    /\ emotion = None
    /\ search_query = None
    /\ youtube_url = None
    /\ notices = <<>>
    /\ calls = NoCalls
    /\ tempFile = None
    /\ mixer = MixerIdle
    /\ pm_url = None
    /\ pm_result = "not_called"

\* An interaction makes Streamlit execute the script again from the top.  The
\* machine keeps its audio device and camera; the other answers are new.
Rerun ==
    /\ RunEnded
    /\ run < MaxRuns
    /\ run' = run + 1
    /\ stub' \in {s \in Stubs : s.audio = stub.audio /\ s.camera = stub.camera}
    /\ pc' = "pygame_init"
    /\ pygame_available' = FALSE
    /\ cap' = "absent"
    /\ cap_available' = FALSE
    /\ clicked' = FALSE
    /\ path' = "none"
    /\ uploaded_file' = None
    /\ emotion' = None
    /\ search_query' = None
    /\ youtube_url' = None
    /\ notices' = <<>>
    /\ calls' = NoCalls
    /\ UNCHANGED <<tempFile, mixer, pm_url, pm_result>>

Next ==
    \/ PygameInit("camera_open")
    \/ CameraOpen
    \/ Dispatch
    \/ CapRead
    \/ UploadDecode
    \/ DetectEmotion
    \/ GetYoutubeUrl
    \/ ShowResult
    \/ Cleanup
    \/ Rerun

Spec == Init /\ [][Next]_vars

----------------------------------------------------------------------------
(* play_music: lines 79-96, with download_audio: lines 61-77 *)

MsgNoPlayback == Note("info", "Music playback is not available in this environment.")

MsgDownloadFailed == Note("error", "Failed to download music")

MsgCouldNotPlay == Note("warning", "Could not play audio")

\* play_music without its guard
PlaybackBlocked_Never(available) == FALSE

\* line 81: if not pygame_available
PlaybackBlocked(available) == ~available

\* lines 71-77: the path returned by download_audio, None when ydl.download raised
download_audio(fetcher) == IF fetcher = "asset" THEN AudioPath ELSE None

\* lines 81-83
PlayGuard ==
    /\ pc = "pm_guard"
    /\ IF PlaybackBlocked(pygame_available)
       THEN /\ notices' = Append(notices, MsgNoPlayback)
            /\ pm_result' = None
            /\ pc' = "idle"
       ELSE /\ pc' = "pm_download"
            /\ UNCHANGED <<notices, pm_result>>
    /\ UNCHANGED <<run, stub, pygame_available, cap, cap_available, clicked,
                   path, uploaded_file, emotion, search_query, youtube_url,
                   calls, tempFile, mixer, pm_url>>

\* line 85 with lines 61-77, and the test of line 87
DownloadAudio ==
    /\ pc = "pm_download"
    /\ calls' = Bump(calls, "download")
    /\ IF download_audio(stub.fetcher) # None
       THEN /\ tempFile' = pm_url
            /\ pc' = "pm_load"
            /\ UNCHANGED <<notices, pm_result>>
       ELSE /\ notices' = Append(notices, MsgDownloadFailed)
            /\ pm_result' = None
            /\ pc' = "idle"
            /\ UNCHANGED tempFile
    /\ UNCHANGED <<run, stub, pygame_available, cap, cap_available, clicked,
                   path, uploaded_file, emotion, search_query, youtube_url,
                   mixer, pm_url>>

\* line 89, and lines 92-94 when it raises pygame.error
MixerLoad ==
    /\ pc = "pm_load"
    /\ calls' = Bump(calls, "load")
    /\ IF stub.device = "load_error"
       THEN /\ notices' = Append(notices, MsgCouldNotPlay)
            /\ pm_result' = None
            /\ pc' = "idle"
            /\ UNCHANGED mixer
       ELSE /\ mixer' = [loaded |-> tempFile, playing |-> FALSE]
            /\ pc' = "pm_play"
            /\ UNCHANGED <<notices, pm_result>>
    /\ UNCHANGED <<run, stub, pygame_available, cap, cap_available, clicked,
                   path, uploaded_file, emotion, search_query, youtube_url,
                   tempFile, pm_url>>

\* lines 90-91, and lines 92-94 when it raises pygame.error
MixerPlay ==
    /\ pc = "pm_play"
    /\ calls' = Bump(calls, "play")
    /\ IF stub.device = "play_error"
       THEN /\ notices' = Append(notices, MsgCouldNotPlay)
            /\ pm_result' = None
            /\ UNCHANGED mixer
       ELSE /\ mixer' = [mixer EXCEPT !.playing = TRUE]
            /\ pm_result' = AudioPath
            /\ UNCHANGED notices
    /\ pc' = "idle"
    /\ UNCHANGED <<run, stub, pygame_available, cap, cap_available, clicked,
                   path, uploaded_file, emotion, search_query, youtube_url,
                   tempFile, pm_url>>

\* a caller invokes play_music(youtube_url) after the module-level start
CallPlayMusic ==
    /\ pc = "idle"
    /\ run <= MaxPlays
    /\ run' = run + 1
    /\ \E url \in Urls, f \in {"asset", "fails"},
          d \in {"ok", "load_error", "play_error"} :
          /\ pm_url' = url
          /\ stub' = [stub EXCEPT !.fetcher = f, !.device = d]
    /\ pm_result' = "running"
    /\ calls' = Bump(calls, "play_music")
    /\ pc' = "pm_guard"
    /\ UNCHANGED <<pygame_available, cap, cap_available, clicked, path,
                   uploaded_file, emotion, search_query, youtube_url, notices,
                   tempFile, mixer>>

InitPlayer ==
    /\ Init
    /\ stub.camera = "raises"
    /\ stub.read = "no_frame"
    /\ stub.classifier = "neutral"
    /\ stub.locator = "empty"

NextPlayer ==
    \/ PygameInit("idle")
    \/ CallPlayMusic
    \/ PlayGuard
    \/ DownloadAudio
    \/ MixerLoad
    \/ MixerPlay

SpecPlayer == InitPlayer /\ [][NextPlayer]_vars

----------------------------------------------------------------------------
(* Properties *)

EmptyNote == Note("none", "")

LastNotice == IF notices = <<>> THEN EmptyNote ELSE notices[Len(notices)]

Shown(n) == \E i \in 1..Len(notices) : notices[i] = n

\* a warning or an error shown after the search was announced
FailureShownAfterSearch ==
    \E i, j \in 1..Len(notices) :
        /\ notices[i] = MsgSearching
        /\ i < j
        /\ notices[j].kind \in {"warning", "error"}

\* the mood the specification documents for each label
DocumentedMood(e) ==
    CASE e = "angry"    -> "calm"
      [] e = "disgust"  -> "relaxing"
      [] e = "fear"     -> "soothing"
      [] e = "happy"    -> "happy"
      [] e = "neutral"  -> "peaceful"
      [] e = "sad"      -> "uplifting"
      [] e = "surprise" -> "exciting"
      [] OTHER          -> "peaceful"

LocatorZero == stub.locator \in {"empty", "missing"}

CameraUnavailable == stub.camera \in {"raises", "closed"}

CameraReported == pc \notin {"pygame_init", "camera_open"}

\* C1: the mood used in the search query and in the "Now Playing" message is
\* the documented mood of the detected label, and "peaceful" for a label
\* outside the seven.
C1_MoodLookupTotal ==
    /\ calls["search"] > 0 =>
          search_query = DocumentedMood(emotion) \o " mood music"
    /\ \A i \in 1..Len(notices) :
          notices[i].kind = "success" =>
            notices[i].text = "Now Playing: " \o DocumentedMood(emotion) \o " Mood Music"

\* C2: a triggered run whose classifier answers "happy" searches for
\* "happy mood music", and when the locator gives a URL and the fetcher gives
\* an asset, play is invoked exactly once before the run ends.
C2_HappyPlaysOnce ==
    (pc = "done" /\ clicked /\ calls["analyze"] > 0 /\ stub.classifier = "happy") =>
        /\ search_query = "happy mood music"
        /\ (youtube_url # None /\ stub.fetcher = "asset") =>
              /\ calls["play_music"] = 1
              /\ calls["play"] = 1

\* C3: in a run whose locator returns zero entries the last thing shown is
\* the "No suitable music found." notice, and the download is never invoked.
C3_NoResultsHalts ==
    (calls["search"] > 0 /\ LocatorZero) =>
        /\ youtube_url = None
        /\ calls["download"] = 0
        /\ pc \in {"cleanup", "done"} => LastNotice = MsgNotFound

C3_Witness ==
    /\ pc = "done"
    /\ calls["search"] = 1
    /\ stub.locator = "empty"
    /\ LastNotice = MsgNotFound

\* C4: in a run whose locator returns a URL and whose download fails, a
\* failure notice is shown and the audio device is never asked to load or
\* play.
C4_DownloadFailureNoticed ==
    (pc = "done" /\ calls["search"] > 0 /\ youtube_url # None /\ stub.fetcher = "fails") =>
        /\ FailureShownAfterSearch
        /\ calls["load"] = 0
        /\ calls["play"] = 0

\* C5: when the camera reports unavailable the run offers the upload and
\* never reads a frame; a frame is read only when the camera was available
\* and the capture button was pressed.
C5_UnavailableRoutesToUpload ==
    /\ (CameraReported /\ CameraUnavailable) => calls["read"] = 0
    /\ (CameraReported /\ CameraUnavailable /\ pc # "dispatch") => Shown(MsgUpload)
    /\ calls["read"] > 0 => (stub.camera = "opened" /\ cap_available /\ clicked)

C5_Witness ==
    /\ pc = "done"
    /\ stub.camera = "closed"
    /\ Shown(MsgUpload)
    /\ calls["read"] = 0

C7_UninitializedPlayIsNoOp ==
    [][(pc # "pygame_init" /\ ~pygame_available) =>
        /\ ~pygame_available'
        /\ tempFile' = tempFile
        /\ mixer' = mixer
        /\ \A c \in {"download", "load", "play"} : calls'[c] = calls[c]
        /\ pc = "pm_guard" =>
              /\ pm_result' = None
              /\ notices' = Append(notices, MsgNoPlayback)
              /\ MsgNoPlayback.kind = "info"
              /\ pc' = "idle"
        /\ pc # "pm_guard" => notices' = notices]_vars

C7_Witness ==
    /\ pc = "idle"
    /\ ~pygame_available
    /\ calls["play_music"] > 0
    /\ pm_result = None
    /\ LastNotice = MsgNoPlayback
    /\ calls["download"] = 0

\* C8: no run ends with an unhandled exception, and a malformed upload ends
\* with a notice about it.
C8_NoUnhandledFault ==
    /\ pc # "crashed"
    /\ (pc = "done" /\ uploaded_file = "malformed") =>
          LastNotice.kind \in {"warning", "error"}

C10_StagesGated ==
    /\ calls["analyze"] > 0 =>
          \/ path = "camera" /\ calls["read"] > 0 /\ stub.read = "frame"
          \/ path = "upload" /\ uploaded_file = "valid"
    /\ calls["search"] > 0 => (calls["analyze"] > 0 /\ emotion # None)
    /\ calls["video"] > 0 => calls["search"] > 0
    /\ (calls["read"] > 0 /\ stub.read = "no_frame") =>
          /\ \A c \in {"analyze", "search", "play_music", "download", "load",
                        "play", "video"} : calls[c] = 0
          /\ pc \in {"cleanup", "done"} => LastNotice = MsgCaptureFailed

C10_Witness ==
    /\ pc = "done"
    /\ calls["read"] = 1
    /\ stub.read = "no_frame"
    /\ LastNotice = MsgCaptureFailed
    /\ calls["analyze"] = 0

====
